---------------------------- MODULE Spec2Model ----------------------------
(***************************************************************************)
(* A model of xs.c: a 16-byte string value with three storage layouts      *)
(* (inline, heap, heap with a 4-byte reference count in front of the data) *)
(* and its operations xs_new, xs_grow, xs_free, xs_concat, xs_trim and     *)
(* xs_copy.                                                                *)
(*                                                                         *)
(* An xs value is modelled as its 16 bytes (little-endian x86-64 layout),  *)
(* so that the three overlapping views of the union are what the code      *)
(* makes them.  The heap is a sequence of buffers; the address of the      *)
(* k-th buffer ever allocated is k, and 0 is NULL.  A buffer records its    *)
(* allocated size, the bytes written so far (bytes past them, and bytes    *)
(* never written, are indeterminate), whether it is still allocated and    *)
(* how many times it was freed.                                            *)
(***************************************************************************)
EXTENDS Integers, Sequences, FiniteSets, TLC

\* ------------------------------------------------------------------ bounds
NSlots == 3
MaxSteps == 3
MaxCloneSteps == 5
MaxCowSteps == 2
MaxNewLen == 520
MaxTrimLen == 3
MaxGrowSteps == 3
MaxEditSteps == 3

\* --------------------------------------------------------------- constants
LARGE_STRING_LEN == 256
HeaderSize == 4
InlineCap == 15

\* An indeterminate byte (uninitialised or out-of-bounds memory).
Undef == -1
\* A pointer that was never returned by the allocator.
WildPtr == -2
\* Sizes of 2^30 and more are all read as SizeHuge (the model's integers
\* are 32 bits wide; no buffer of the model is that large).
SizeHuge == 2^30

Slots == 1..NSlots
\* The function f on 1..n as a sequence value.
Seq_(f, n) == SubSeq(f, 1, n)
Min(a, b) == IF a < b THEN a ELSE b
Max(a, b) == IF a > b THEN a ELSE b

\* ------------------------------------------------------ the 16-byte value
\* x[i] is data[i-1].  Byte 16 holds space_left (bits 0-3), is_ptr (bit 4),
\* is_large_string (bit 5); capacity is bits 54..59 of the word in bytes
\* 9..16, size is bits 0..53 of it, ptr is the word in bytes 1..8.
space_left(x) == x[16] % 16

xs_is_ptr(x) == (x[16] \div 16) % 2 = 1

xs_is_large_string(x) == (x[16] \div 32) % 2 = 1

size_field(x) ==
  IF x[12] >= 64 \/ x[13] # 0 \/ x[14] # 0 \/ x[15] % 64 # 0
  THEN SizeHuge
  ELSE x[9] + 256 * x[10] + 65536 * x[11] + 16777216 * x[12]

capacity_field(x) == (x[15] \div 64) + 4 * (x[16] % 16)

ptr_field(x) ==
  IF \E i \in 2..8 : x[i] # 0 THEN WildPtr ELSE x[1]

xs_size(x) == IF xs_is_ptr(x) THEN size_field(x) ELSE InlineCap - space_left(x)

\* (size_t) 1 << k, read as SizeHuge from 2^30 on.
Shl(k) == IF k >= 30 THEN SizeHuge ELSE 2^k

\* a + b for sizes, read as SizeHuge from 2^30 on.
Plus(a, b) == IF a >= SizeHuge \/ b >= SizeHuge THEN SizeHuge ELSE Min(a + b, SizeHuge)

xs_capacity(x) == IF xs_is_ptr(x) THEN Shl(capacity_field(x)) - 1 ELSE InlineCap

\* Bit-field and pointer stores.
set_space_left(x, v) == [x EXCEPT ![16] = (x[16] \div 16) * 16 + (v % 16)]

set_is_ptr(x) == [x EXCEPT ![16] = IF xs_is_ptr(x) THEN x[16] ELSE x[16] + 16]

set_is_large_string(x) ==
  [x EXCEPT ![16] = IF xs_is_large_string(x) THEN x[16] ELSE x[16] + 32]

set_capacity(x, k) ==
  [x EXCEPT ![15] = (x[15] % 64) + 64 * (k % 4),
            ![16] = (x[16] \div 16) * 16 + ((k \div 4) % 16)]

\* n is a size_t below 2^31, or a negative number -i standing for the
\* wrapped value 2^64 - i; the field keeps its low 54 bits.
set_size(x, n) ==
  LET hi == IF n < 0 THEN 255 ELSE 0
  IN [x EXCEPT ![9] = n % 256,
               ![10] = (n \div 256) % 256,
               ![11] = (n \div 65536) % 256,
               ![12] = (n \div 16777216) % 256,
               ![13] = hi,
               ![14] = hi,
               ![15] = (x[15] \div 64) * 64 + (hi % 64)]

set_ptr(x, a) == << a, 0, 0, 0, 0, 0, 0, 0 >> \o SubSeq(x, 9, 16)

xs_literal_empty == << 0, 0, 0, 0, 0, 0, 0, 0, 0, 0, 0, 0, 0, 0, 0, 15 >>

ilog2(n) ==
  LET RECURSIVE lg(_)
      lg(m) == IF m <= 1 THEN 0 ELSE 1 + lg(m \div 2)
  IN lg(n)

\* ---------------------------------------------------------------- the heap
Valid(h, p) == p \in 1..Len(h) /\ h[p].live

\* The byte at offset off of buffer p.
Peek(h, p, off) ==
  IF Valid(h, p) /\ off >= 0 /\ off < Len(h[p].mem) THEN h[p].mem[off + 1] ELSE Undef

\* Bytes bs stored at offset off of a buffer; what falls outside the
\* allocation is not stored.
Poke(b, off, bs) ==
  LET top == Min(Max(Len(b.mem), off + Len(bs)), b.size)
  IN [b EXCEPT !.mem = Seq_([i \in 1..top |->
        IF i > off /\ i <= off + Len(bs) THEN bs[i - off]
        ELSE IF i <= Len(b.mem) THEN b.mem[i] ELSE Undef], top)]

EncodeInt(v) ==
  << v % 256, (v \div 256) % 256, (v \div 65536) % 256, (v \div 16777216) % 256 >>

DecodeInt(b) ==
  b[1] + 256 * b[2] + 65536 * b[3] + 16777216 * (IF b[4] >= 128 THEN b[4] - 256 ELSE b[4])

\* A machine state r is [x: the value operated on, h: the heap, f: the set
\* of faults (undefined behaviour) met so far].
Fault(r, what) == [r EXCEPT !.f = @ \cup {what}]

Store(r, p, off, bs) ==
  IF Len(bs) = 0 THEN r
  ELSE IF ~Valid(r.h, p) THEN Fault(r, "wild_write")
  ELSE LET s == [r EXCEPT !.h[p] = Poke(@, off, bs)]
       IN IF off + Len(bs) > r.h[p].size THEN Fault(s, "heap_overflow") ELSE s

\* A request of 2^30 bytes or more fails: NULL is returned (nothing in the
\* code checks for it).
malloc(r, n) ==
  IF n >= SizeHuge THEN Fault([r EXCEPT !.x = set_ptr(r.x, 0)], "alloc_failed")
  ELSE [r EXCEPT !.h = Append(@, [size |-> n, mem |-> << >>, live |-> TRUE, frees |-> 0]),
                 !.x = set_ptr(r.x, Len(r.h) + 1)]

free(r, p) ==
  IF p = 0 THEN r
  ELSE IF p \notin 1..Len(r.h) THEN Fault(r, "wild_free")
  ELSE IF r.h[p].live THEN [r EXCEPT !.h[p].live = FALSE, !.h[p].frees = @ + 1]
  ELSE Fault([r EXCEPT !.h[p].frees = @ + 1], "double_free")

\* realloc(r.x->ptr, n): a new buffer with the old bytes, the old one freed
\* (moved), or the same buffer resized (~moved).
realloc(r, n, moved) ==
  IF ptr_field(r.x) = 0 \/ n >= SizeHuge THEN malloc(r, n)
  ELSE IF ~Valid(r.h, ptr_field(r.x))
       THEN Fault(malloc(r, n),
                  IF ptr_field(r.x) \in 1..Len(r.h) THEN "use_after_free" ELSE "wild_free")
  ELSE IF moved
       THEN [r EXCEPT
               !.h = Append([@ EXCEPT ![ptr_field(r.x)].live = FALSE,
                                      ![ptr_field(r.x)].frees = @ + 1],
                            [size |-> n,
                             mem |-> SubSeq(r.h[ptr_field(r.x)].mem, 1,
                                            Min(Len(r.h[ptr_field(r.x)].mem), n)),
                             live |-> TRUE, frees |-> 0]),
               !.x = set_ptr(r.x, Len(r.h) + 1)]
       ELSE [r EXCEPT !.h[ptr_field(r.x)].size = n,
                      !.h[ptr_field(r.x)].mem = SubSeq(@, 1, Min(Len(@), n))]

\* --------------------------------------------------------- reference count
\* The int at the start of the buffer; u is what an indeterminate read gives.
HeaderKnown(h, p) ==
  Valid(h, p) /\ Len(h[p].mem) >= HeaderSize
    /\ \A i \in 1..HeaderSize : h[p].mem[i] # Undef

ReadHeader(h, p, u) ==
  IF HeaderKnown(h, p) THEN DecodeInt(SubSeq(h[p].mem, 1, HeaderSize)) ELSE u

xs_set_ref_count(r, val) ==
  IF Valid(r.h, ptr_field(r.x)) THEN Store(r, ptr_field(r.x), 0, EncodeInt(val))
  ELSE Fault(r, IF ptr_field(r.x) \in 1..Len(r.h) THEN "use_after_free" ELSE "wild_write")

xs_get_ref_count(r, u) ==
  IF ~xs_is_large_string(r.x) THEN 0 ELSE ReadHeader(r.h, ptr_field(r.x), u)

\* (xs_inc_ref_count that does not count.)
xs_inc_ref_count_none(r, u) == r

xs_inc_ref_count(r, u) ==
  IF xs_is_large_string(r.x)
  THEN xs_set_ref_count(r, ReadHeader(r.h, ptr_field(r.x), u) + 1)
  ELSE r

\* [r |-> the state after, v |-> the value returned]
xs_dec_ref_count(r, u) ==
  IF ~xs_is_large_string(r.x) THEN [r |-> r, v |-> 0]
  ELSE [r |-> xs_set_ref_count(r, ReadHeader(r.h, ptr_field(r.x), u) - 1),
        v |-> ReadHeader(r.h, ptr_field(r.x), u) - 1]

\* ---------------------------------------------------------------- xs_data
\* Where the content starts: [in |-> TRUE] for the value's own bytes, else
\* buffer p at offset off.
xs_data(x) ==
  IF ~xs_is_ptr(x) THEN [in |-> TRUE, p |-> 0, off |-> 0]
  ELSE [in |-> FALSE, p |-> ptr_field(x),
        off |-> IF xs_is_large_string(x) THEN HeaderSize ELSE 0]

\* n bytes read through pointer d (+ skip), in the state r whose value r.x
\* is the one an inline pointer points into.
Load(r, d, skip, n) ==
  Seq_([i \in 1..n |->
     IF d.in THEN (IF skip + i <= 16 THEN r.x[skip + i] ELSE Undef)
     ELSE Peek(r.h, d.p, d.off + skip + i - 1)], n)

\* bs written through pointer d (+ skip).
Write(r, d, skip, bs) ==
  IF d.in
  THEN IF skip + Len(bs) > 16
       THEN Fault(r, "stack_overflow")
       ELSE [r EXCEPT !.x = Seq_([i \in 1..16 |->
               IF i > skip /\ i <= skip + Len(bs) THEN bs[i - skip] ELSE r.x[i]], 16)]
  ELSE Store(r, d.p, d.off + skip, bs)

\* The content seen through a value: xs_size bytes from xs_data.
Content(x, h) ==
  IF xs_size(x) >= SizeHuge THEN << Undef >>
  ELSE Load([x |-> x, h |-> h, f |-> {}], xs_data(x), 0, xs_size(x))

\* The byte after the content.
Terminator(x, h) ==
  IF xs_size(x) >= SizeHuge THEN Undef
  ELSE Load([x |-> x, h |-> h, f |-> {}], xs_data(x), xs_size(x), 1)[1]

\* memcpy/memmove of n bytes from pointer s (+ sskip), read in state rs, to
\* pointer d (+ dskip) of state r.
MemCopy(r, d, dskip, rs, s, sskip, n) ==
  IF n >= SizeHuge \/ n < 0 THEN Fault(r, "segv")
  ELSE IF n = 0 THEN r
  ELSE IF ~s.in /\ ~Valid(rs.h, s.p)
       THEN Fault(Write(r, d, dskip, Load(rs, s, sskip, n)), "wild_read")
  ELSE Write(r, d, dskip, Load(rs, s, sskip, n))

\* ------------------------------------------------------- xs_allocate_data
\* (xs_allocate_data with len <= LARGE_STRING_LEN for the medium strings.)
xs_allocate_data_le(r, len, reallocate, moved) ==
  IF len <= LARGE_STRING_LEN
  THEN IF reallocate THEN realloc(r, Shl(capacity_field(r.x)), moved)
       ELSE malloc(r, Shl(capacity_field(r.x)))
  ELSE xs_set_ref_count(
         IF reallocate
         THEN realloc([r EXCEPT !.x = set_is_large_string(r.x)],
                      Plus(Shl(capacity_field(r.x)), HeaderSize), moved)
         ELSE malloc([r EXCEPT !.x = set_is_large_string(r.x)],
                     Plus(Shl(capacity_field(r.x)), HeaderSize)),
         1)

xs_allocate_data(r, len, reallocate, moved) ==
  IF len < LARGE_STRING_LEN
  THEN IF reallocate THEN realloc(r, Shl(capacity_field(r.x)), moved)
       ELSE malloc(r, Shl(capacity_field(r.x)))
  ELSE xs_set_ref_count(
         IF reallocate
         THEN realloc([r EXCEPT !.x = set_is_large_string(r.x)],
                      Plus(Shl(capacity_field(r.x)), HeaderSize), moved)
         ELSE malloc([r EXCEPT !.x = set_is_large_string(r.x)],
                     Plus(Shl(capacity_field(r.x)), HeaderSize)),
         1)

\* ----------------------------------------------------------------- xs_new
\* memcpy(xs_data(x), p, len) into the buffer just allocated.
xs_new_fill(r, src) == Store(r, xs_data(r.x).p, xs_data(r.x).off, src)

\* (xs_new that takes 16 bytes, terminator included, for too long.)
xs_new_strict(h, f, p) ==
  IF Len(p) + 1 > 15
  THEN xs_new_fill(
         xs_allocate_data(
           [x |-> set_is_ptr(set_size(set_capacity(xs_literal_empty,
                                                   ilog2(Len(p) + 1) + 1),
                                      Len(p))),
            h |-> h, f |-> f],
           Len(p), FALSE, FALSE),
         Append(p, 0))
  ELSE [x |-> set_space_left(Append(p, 0) \o SubSeq(xs_literal_empty, Len(p) + 2, 16),
                             InlineCap - Len(p)),
        h |-> h, f |-> f]

\* p is the byte string (without its terminator); h and f are the heap and
\* the faults before.
xs_new(h, f, p) ==
  IF Len(p) + 1 > 16
  THEN xs_new_fill(
         xs_allocate_data(
           [x |-> set_is_ptr(set_size(set_capacity(xs_literal_empty,
                                                   ilog2(Len(p) + 1) + 1),
                                      Len(p))),
            h |-> h, f |-> f],
           Len(p), FALSE, FALSE),
         Append(p, 0))
  ELSE [x |-> set_space_left(Append(p, 0) \o SubSeq(xs_literal_empty, Len(p) + 2, 16),
                             InlineCap - Len(p)),
        h |-> h, f |-> f]

\* ---------------------------------------------------------------- xs_grow
\* The branch taken when the value is not (yet) heap-backed: allocate, then
\* copy the 16 bytes saved in buf.
xs_grow_restore(r, buf) == Write(r, xs_data(r.x), 0, buf)

\* r2 is the value with is_ptr and capacity already set.
xs_grow_alloc(r2, buf, len, moved) ==
  IF xs_is_ptr(r2.x)
  THEN xs_allocate_data(r2, len, TRUE, moved)
  ELSE xs_grow_restore(xs_allocate_data(r2, len, FALSE, moved), buf)

\* (xs_grow with the exponent ilog2(len).)
xs_grow_floor(r, len, moved) ==
  IF len <= xs_capacity(r.x) THEN r
  ELSE xs_grow_alloc([r EXCEPT !.x = set_capacity(set_is_ptr(r.x), ilog2(len))],
                     r.x, len, moved)

xs_grow(r, len, moved) ==
  IF len <= xs_capacity(r.x) THEN r
  ELSE xs_grow_alloc([r EXCEPT !.x = set_capacity(set_is_ptr(r.x), ilog2(len) + 1)],
                     r.x, len, moved)

\* ---------------------------------------------------------------- xs_free
\* (xs_newempty that leaves the value as it was.)
xs_newempty_keeps(r) == r

xs_newempty(r) == [r EXCEPT !.x = xs_literal_empty]

\* d is what xs_dec_ref_count gave, p the pointer.
xs_free_dec(d, p) == xs_newempty(IF d.v <= 0 THEN free(d.r, p) ELSE d.r)

xs_free(r, u) ==
  IF xs_is_ptr(r.x)
  THEN xs_free_dec(xs_dec_ref_count(r, u), ptr_field(r.x))
  ELSE xs_newempty(r)

\* ------------------------------------------------------- xs_cow_lazy_copy
\* r2 is the state with the new buffer: memcpy(xs_data(x), *data, x->size)
\* and *data = xs_data(x).
xs_cow_fill(r2, data) ==
  [r |-> MemCopy(r2, xs_data(r2.x), 0, r2, data, 0, size_field(r2.x)),
   data |-> xs_data(r2.x), copied |-> TRUE]

\* r1 is the state after the count was decremented.
xs_cow_alloc(r1, data) ==
  xs_cow_fill(xs_allocate_data(r1, size_field(r1.x), FALSE, FALSE), data)

\* (xs_cow_lazy_copy that never copies.)
xs_cow_lazy_copy_never(r, data, u) == [r |-> r, data |-> data, copied |-> FALSE]

\* data is the caller's pointer.  Returns [r, data, copied]; when copied,
\* the function ends without a return statement and its value is
\* indeterminate (the callers draw it).
xs_cow_lazy_copy(r, data, u) ==
  IF xs_get_ref_count(r, u) <= 1 THEN [r |-> r, data |-> data, copied |-> FALSE]
  ELSE xs_cow_alloc(xs_dec_ref_count(r, u).r, data)

\* ---------------------------------------------------------------- xs_copy
\* r1 is the state after dest->ptr = malloc(...), its value being *dest.
xs_copy_medium(r1, src) ==
  [r |-> [MemCopy(r1, [in |-> FALSE, p |-> ptr_field(r1.x), off |-> 0], 0,
                  r1, [in |-> FALSE, p |-> ptr_field(src), off |-> 0], 0,
                  size_field(src))
          EXCEPT !.x = src],
   dest |-> r1.x]

\* r.x is src; returns [r |-> the state after (src unchanged), dest |-> *dest].
xs_copy(r, u) ==
  IF ~xs_is_ptr(r.x) THEN [r |-> r, dest |-> r.x]
  ELSE IF xs_is_large_string(r.x) THEN [r |-> xs_inc_ref_count(r, u), dest |-> r.x]
  ELSE xs_copy_medium(malloc(r, Shl(capacity_field(r.x))), r.x)

\* -------------------------------------------------------------- xs_concat
\* The state through which the bytes of another value v are read.
Through(v, r) == [x |-> v, h |-> r.h, f |-> {}]

\* memmove(data + pres, data, size)
xs_concat_shift(r, data, pres, size) == MemCopy(r, data, pres, r, data, 0, size)

\* memcpy(data, pre, pres)
xs_concat_prefix(r, data, prefix) ==
  MemCopy(r, data, 0, Through(prefix, r), xs_data(prefix), 0, xs_size(prefix))

\* memcpy(data + pres + size, suf, sufs + 1)
xs_concat_suffix(r, data, at, suffix) ==
  MemCopy(r, data, at, Through(suffix, r), xs_data(suffix), 0, Plus(xs_size(suffix), 1))

\* The new length, in the field of the value's layout.
xs_set_len(r, n) ==
  IF xs_is_ptr(r.x)
  THEN [r EXCEPT !.x = set_size(r.x, n)]
  ELSE [r EXCEPT !.x = set_space_left(r.x, InlineCap - n)]

xs_concat_inplace(r1, data, prefix, suffix, size) ==
  xs_set_len(
    xs_concat_suffix(
      xs_concat_prefix(xs_concat_shift(r1, data, xs_size(prefix), size), data, prefix),
      data, Plus(xs_size(prefix), size), suffix),
    Plus(Plus(size, xs_size(prefix)), xs_size(suffix)))

\* memcpy(tmpdata + pres, data, size): t is the state whose value is tmps,
\* string the value data may point into.
xs_concat_old(t, string, data, pres, size) ==
  MemCopy(t, xs_data(t.x), pres, Through(string, t), data, 0, size)

xs_concat_tprefix(t, prefix) == xs_concat_prefix(t, xs_data(t.x), prefix)

xs_concat_tsuffix(t, at, suffix) == xs_concat_suffix(t, xs_data(t.x), at, suffix)

\* xs_free(string); *string = tmps; string->size = total: rf is the state
\* after xs_free, tmps the value built.
xs_concat_replace(rf, tmps, total) == [rf EXCEPT !.x = set_size(tmps, total)]

xs_concat_release(t4, string, total, u) ==
  xs_concat_replace(xs_free([x |-> string, h |-> t4.h, f |-> t4.f], u), t4.x, total)

xs_concat_newbuf(r1, data, prefix, suffix, size, u) ==
  xs_concat_release(
    xs_concat_tsuffix(
      xs_concat_tprefix(
        xs_concat_old(
          xs_grow([x |-> xs_literal_empty, h |-> r1.h, f |-> r1.f],
                  Plus(Plus(size, xs_size(prefix)), xs_size(suffix)), FALSE),
          r1.x, data, xs_size(prefix), size),
        prefix),
      Plus(xs_size(prefix), size), suffix),
    r1.x, Plus(Plus(size, xs_size(prefix)), xs_size(suffix)), u)

\* c is what xs_cow_lazy_copy gave; size and capacity were read before it.
xs_concat_body(c, prefix, suffix, size, capacity, u) ==
  IF Plus(Plus(size, xs_size(prefix)), xs_size(suffix)) <= capacity
  THEN xs_concat_inplace(c.r, c.data, prefix, suffix, size)
  ELSE xs_concat_newbuf(c.r, c.data, prefix, suffix, size, u)

\* r.x is *string; prefix and suffix are the values of *prefix and *suffix
\* (values other than *string).
xs_concat(r, prefix, suffix, u) ==
  xs_concat_body(xs_cow_lazy_copy(r, xs_data(r.x), u), prefix, suffix,
                 xs_size(r.x), xs_capacity(r.x), u)

\* ---------------------------------------------------------------- xs_trim
\* The bitmap built by set_bit, as the set of bytes whose bit is set.
TrimMask(trimset) == {trimset[k] : k \in 1..Len(trimset)}

\* for (i = 0; i < slen; i++) if (!check_bit(dataptr[i])) break;
LeadScan(bytes, mask, slen) ==
  LET RECURSIVE go(_)
      go(i) == IF i < slen /\ bytes[i + 1] \in mask THEN go(i + 1) ELSE i
  IN go(0)

\* for (; slen > 0; slen--) if (!check_bit(dataptr[slen - 1])) break;
TailScan(bytes, mask, slen) ==
  LET RECURSIVE go(_)
      go(n) == IF n > 0 /\ bytes[n] \in mask THEN go(n - 1) ELSE n
  IN go(slen)

\* if (orig[slen]) orig[slen] = 0; and the new length.
xs_trim_finish(r2, orig, slen) ==
  xs_set_len(IF Load(r2, orig, slen, 1)[1] = 0 THEN r2 ELSE Write(r2, orig, slen, << 0 >>),
             slen)

\* dataptr += i; slen -= i; memmove(orig, dataptr, slen).  slen is a size_t:
\* below 0 it wraps to a length no buffer has.
xs_trim_move(r1, dataptr, orig, i, slen) ==
  IF slen - i < 0 THEN Fault(r1, "segv")
  ELSE xs_trim_finish(MemCopy(r1, orig, 0, r1, dataptr, i, slen - i), orig, slen - i)

xs_trim_scan(r1, dataptr, orig, bytes, mask) ==
  xs_trim_move(r1, dataptr, orig,
               LeadScan(bytes, mask, Len(bytes)), TailScan(bytes, mask, Len(bytes)))

\* c is what xs_cow_lazy_copy gave, dataptr0 the pointer before it, ret the
\* value read from xs_cow_lazy_copy when it has copied.
xs_trim_body(c, dataptr0, trimset, ret) ==
  IF xs_size(c.r.x) >= SizeHuge THEN Fault(c.r, "segv")
  ELSE xs_trim_scan(c.r, c.data, IF c.copied /\ ~ret THEN dataptr0 ELSE c.data,
                    Load(c.r, c.data, 0, xs_size(c.r.x)), TrimMask(trimset))

\* (xs_trim without the test of trimset[0].)
xs_trim_eager(r, trimset, ret, u) ==
  xs_trim_body(xs_cow_lazy_copy(r, xs_data(r.x), u), xs_data(r.x), trimset, ret)

xs_trim(r, trimset, ret, u) ==
  IF Len(trimset) = 0 THEN r
  ELSE xs_trim_body(xs_cow_lazy_copy(r, xs_data(r.x), u), xs_data(r.x), trimset, ret)

\* ------------------------------------------------------------- test data
\* Bytes used by the tests: '@' and '#' (init_random_string's bookmarks),
\* 'a' (the first letter of charset), '(' and ')' (run_concat_test).
AT == 64
HASH == 35
LETTER_A == 97
LPAREN == 40
RPAREN == 41

\* init_random_string for a string of n bytes, the random letters replaced
\* by a fixed pattern of three.
Gen(n) ==
  Seq_([i \in 1..n |-> IF i = 1 THEN AT ELSE IF i = n THEN HASH ELSE LETTER_A + (i % 3)], n)

\* xs_tmp(p): a value built by xs_new in a temporary; p short, so no heap.
xs_tmp(p) == xs_new(<< >>, {}, p).x

\* What an indeterminate int may read as.
Indet == {0, 1, 2}

\* --------------------------------------------------------------- the state
VARIABLES
  xsv,    \* the xs values of the program (backup_string[], string)
  heap,   \* the buffers obtained from malloc/realloc
  fault,  \* undefined behaviour met so far; the program stops at the first
  owned,  \* owned[s]: slot s was constructed or cloned and not yet released
  steps,  \* operations performed
  ops,    \* operations performed, by name
  last    \* the last operation and what its target looked like before it

vars == << xsv, heap, fault, owned, steps, ops, last >>

NoOp ==
  [op |-> "init", slot |-> 0, prex |-> xs_literal_empty, c |-> << >>, rc |-> 0,
   grp |-> {}, a1 |-> << >>, a2 |-> << >>, n |-> 0, ret |-> TRUE,
   pop |-> "init", pslot |-> 0]

Init ==
  /\ xsv = [s \in Slots |-> xs_literal_empty]
  /\ heap = << >>
  /\ fault = {}
  /\ owned = [s \in Slots |-> FALSE]
  /\ steps = 0
  /\ ops = [o \in {"new", "copy", "grow", "concat", "trim", "free"} |-> 0]
  /\ last = NoOp

Cur(s) == [x |-> xsv[s], h |-> heap, f |-> fault]

\* The header count of the buffer a value points at (0 when it is not a
\* large string, -1 when the header cannot be read).
RefCount(x, h) == xs_get_ref_count([x |-> x, h |-> h, f |-> {}], -1)

\* The other owned values whose pointer is the one of slot s.
Aliases(s) ==
  {t \in Slots \ {s} : owned[t] /\ xs_is_ptr(xsv[t]) /\ xs_is_ptr(xsv[s])
                        /\ ptr_field(xsv[t]) = ptr_field(xsv[s])}

Before(o, s) ==
  [NoOp EXCEPT !.op = o, !.slot = s, !.prex = xsv[s], !.c = Content(xsv[s], heap),
               !.rc = RefCount(xsv[s], heap), !.grp = Aliases(s),
               !.pop = last.op, !.pslot = last.slot]

\* What an indeterminate header read may give, for a value x.
Us(x) ==
  IF xs_is_large_string(x)
       /\ (~HeaderKnown(heap, ptr_field(x)) \/ size_field(x) < LARGE_STRING_LEN)
  THEN Indet ELSE {0}

Running(lim) == fault = {} /\ steps < lim

\* Slot s takes the value of state r, the program its heap and faults.
Apply(s, r) ==
  /\ xsv' = [xsv EXCEPT ![s] = r.x]
  /\ heap' = r.h
  /\ fault' = r.f

\* The same for xs_copy: c.dest goes to slot d.
ApplyCopy(d, s, c) ==
  /\ xsv' = [xsv EXCEPT ![d] = c.dest, ![s] = c.r.x]
  /\ heap' = c.r.h
  /\ fault' = c.r.f

Step(o) == steps' = steps + 1 /\ ops' = [ops EXCEPT ![o] = @ + 1]

New(s, p, lim) ==
  /\ Running(lim) /\ ~owned[s]
  /\ Apply(s, xs_new(heap, fault, p))
  /\ owned' = [owned EXCEPT ![s] = TRUE]
  /\ last' = [Before("new", s) EXCEPT !.a1 = p]
  /\ Step("new")

Copy(d, s, lim) ==
  /\ Running(lim) /\ d # s /\ owned[s] /\ ~owned[d]
  /\ \E u \in Us(xsv[s]) : ApplyCopy(d, s, xs_copy(Cur(s), u))
  /\ owned' = [owned EXCEPT ![d] = TRUE]
  /\ last' = [Before("copy", s) EXCEPT !.n = d]
  /\ Step("copy")

Grow(s, len, lim) ==
  /\ Running(lim) /\ owned[s]
  /\ \E moved \in BOOLEAN : Apply(s, xs_grow(Cur(s), len, moved))
  /\ last' = [Before("grow", s) EXCEPT !.n = len]
  /\ Step("grow")
  /\ UNCHANGED owned

Concat(s, prefix, suffix, lim) ==
  /\ Running(lim) /\ owned[s]
  /\ \E u \in Us(xsv[s]) : Apply(s, xs_concat(Cur(s), prefix, suffix, u))
  /\ last' = [Before("concat", s) EXCEPT !.a1 = Content(prefix, heap),
                                         !.a2 = Content(suffix, heap)]
  /\ Step("concat")
  /\ UNCHANGED owned

Trim(s, trimset, lim) ==
  /\ Running(lim) /\ owned[s]
  /\ \E u \in Us(xsv[s]) :
     \E ret \in IF RefCount(xsv[s], heap) = 0 \/ RefCount(xsv[s], heap) = 1
                THEN {TRUE} ELSE BOOLEAN :
       /\ Apply(s, xs_trim(Cur(s), trimset, ret, u))
       /\ last' = [Before("trim", s) EXCEPT !.a1 = trimset, !.ret = ret]
  /\ Step("trim")
  /\ UNCHANGED owned

Free(s, lim) ==
  /\ Running(lim)
  /\ \E u \in Us(xsv[s]) : Apply(s, xs_free(Cur(s), u))
  /\ owned' = [owned EXCEPT ![s] = FALSE]
  /\ last' = Before("free", s)
  /\ Step("free")

\* ------------------------------------------------- the program, any order
Sources == {Gen(3), Gen(20), Gen(LARGE_STRING_LEN)}
GrowLens == {300, 600}
Cutsets == {<< AT, HASH >>}
Parens == << xs_tmp(<< LPAREN, LPAREN, LPAREN >>), xs_tmp(<< RPAREN, RPAREN, RPAREN >>) >>

Next ==
  \/ \E s \in Slots, p \in Sources : New(s, p, MaxSteps)
  \/ \E d \in Slots, s \in Slots : Copy(d, s, MaxSteps)
  \/ \E s \in Slots, len \in GrowLens : Grow(s, len, MaxSteps)
  \/ \E s \in Slots : Concat(s, Parens[1], Parens[2], MaxSteps)
  \/ \E s \in Slots, t \in Slots : t # s /\ owned[t] /\ Concat(s, xsv[t], xsv[t], MaxSteps)
  \/ \E s \in Slots, cut \in Cutsets : Trim(s, cut, MaxSteps)
  \/ \E s \in Slots : Free(s, MaxSteps)

Spec == Init /\ [][Next]_vars

\* ------------------------------------------- xs_new alone, every length
NextNew == \E n \in 0..MaxNewLen : New(1, Gen(n), 1)

SpecNew == Init /\ [][NextNew]_vars

\* --------------------------------- construct, clone and release only
\* As run_string_strategy_test does: slot 1 is constructed, the others are
\* clones.
NextClone ==
  \/ New(1, Gen(LARGE_STRING_LEN), MaxCloneSteps)
  \/ \E d \in Slots, s \in Slots : Copy(d, s, MaxCloneSteps)
  \/ \E s \in Slots : Free(s, MaxCloneSteps)

SpecClone == Init /\ [][NextClone]_vars

\* ------------------------------------- mutation of one alias of a group
\* xs_copy applied k times to the value of r.
RECURSIVE Clones(_, _)
Clones(r, k) == IF k = 0 THEN r ELSE Clones(xs_copy(r, 0).r, k - 1)

\* A large string, trimmed or not (a trimmed one may be shorter than
\* LARGE_STRING_LEN and still be a large string).
CowBase(src, trimmed) ==
  IF trimmed
  THEN xs_trim(xs_new(<< >>, {}, src), << AT, HASH >>, TRUE, 0)
  ELSE xs_new(<< >>, {}, src)

\* The state in which slots 1..k+1 hold the value of r: one value and its k
\* clones.
Group(r, k, trimmed) ==
  /\ xsv = [s \in Slots |-> IF s <= k + 1 THEN r.x ELSE xs_literal_empty]
  /\ heap = r.h
  /\ fault = r.f
  /\ owned = [s \in Slots |-> s <= k + 1]
  /\ steps = 0
  /\ ops = [o \in {"new", "copy", "grow", "concat", "trim", "free"} |->
              IF o = "new" THEN 1 ELSE IF o = "copy" THEN k
              ELSE IF o = "trim" /\ trimmed THEN 1 ELSE 0]
  /\ last = NoOp

CowSources == {Gen(LARGE_STRING_LEN), Gen(510)}

InitCow ==
  \E src \in CowSources, trimmed \in BOOLEAN, k \in 1..(NSlots - 1) :
    Group(Clones(CowBase(src, trimmed), k), k, trimmed)

NextCow ==
  \/ \E s \in Slots : Concat(s, Parens[1], Parens[2], MaxCowSteps)
  \/ \E s \in Slots, cut \in Cutsets : Trim(s, cut, MaxCowSteps)
  \/ \E s \in Slots : Free(s, MaxCowSteps)

SpecCow == InitCow /\ [][NextCow]_vars

\* ------------------------------------------ xs_new, then xs_trim, slot 1
\* Every string of at most n bytes over the bytes of bs.
RECURSIVE Strings(_, _)
Strings(bs, n) ==
  IF n = 0 THEN {<< >>}
  ELSE Strings(bs, n - 1)
         \cup {Append(w, b) : w \in {v \in Strings(bs, n - 1) : Len(v) = n - 1}, b \in bs}

TrimInputs == Strings({AT, LETTER_A, HASH}, MaxTrimLen) \cup {Gen(20), Gen(LARGE_STRING_LEN)}
TrimCutsets == {<< AT, HASH >>, << LETTER_A >>}

NextTrim ==
  \/ \E p \in TrimInputs : New(1, p, 1)
  \/ \E cut \in TrimCutsets : Trim(1, cut, 2)

SpecTrim == Init /\ [][NextTrim]_vars

\* ------------------------------------------ xs_new, then xs_grow, slot 1
GrowSources == {Gen(0), Gen(3), Gen(15), Gen(20), Gen(LARGE_STRING_LEN)}
GrowTargets == {10, 16, 100, 255, 256, 600, 1100}

NextGrow ==
  \/ \E p \in GrowSources : New(1, p, 1)
  \/ \E len \in GrowTargets : Grow(1, len, MaxGrowSteps)

SpecGrow == Init /\ [][NextGrow]_vars

\* ----------------------------- every operation but xs_grow, in any order
EditCutsets == {<< >>, << AT, HASH >>}

NextEdit ==
  \/ \E s \in Slots, p \in Sources : New(s, p, MaxEditSteps)
  \/ \E d \in Slots, s \in Slots : Copy(d, s, MaxEditSteps)
  \/ \E s \in Slots : Concat(s, Parens[1], Parens[2], MaxEditSteps)
  \/ \E s \in Slots, cut \in EditCutsets : Trim(s, cut, MaxEditSteps)
  \/ \E s \in Slots : Free(s, MaxEditSteps)

SpecEdit == Init /\ [][NextEdit]_vars

\* ================================================================ claims

\* C3: every buffer obtained from the allocator is freed exactly once, and
\* never while an unreleased value still points at it: no buffer is freed
\* twice, no owned heap-backed value points at a freed buffer, and once
\* every value is released no buffer is left allocated.
C3_NoLeakNoDoubleFree ==
  /\ \A b \in 1..Len(heap) : heap[b].frees <= 1
  /\ \A s \in Slots :
       (owned[s] /\ xs_is_ptr(xsv[s]) /\ ptr_field(xsv[s]) \in 1..Len(heap))
         => heap[ptr_field(xsv[s])].live
  /\ (fault = {} /\ \A s \in Slots : ~owned[s])
       => \A b \in 1..Len(heap) : ~heap[b].live

\* C10: xs_free leaves the canonical empty inline value (not heap-backed,
\* length 0, capacity 15), whatever the value was; a second xs_free of the
\* same value frees nothing, changes no header count and leaves it the
\* canonical empty value.
C10_ReleaseIdempotent ==
  [][last'.op = "free" =>
       /\ xsv'[last'.slot] = xs_literal_empty
       /\ ~xs_is_ptr(xsv'[last'.slot])
       /\ xs_size(xsv'[last'.slot]) = 0
       /\ xs_capacity(xsv'[last'.slot]) = InlineCap
       /\ (last.op = "free" /\ last.slot = last'.slot)
            => (heap' = heap /\ xsv' = xsv /\ fault' = fault)]_vars

\* A second xs_free of a value whose first xs_free released a heap buffer.
C10_Witness ==
  /\ last.op = "free" /\ last.pop = "free" /\ last.pslot = last.slot
  /\ last.prex = xs_literal_empty
  /\ \E b \in 1..Len(heap) : heap[b].frees = 1

\* C1: xs_concat on one alias of a large string whose header count is c > 1
\* leaves the content and the length seen through every other alias as they
\* were, and the header count of the buffer they hold becomes c - 1.
C1_ConcatIsolation ==
  [][(last'.op = "concat" /\ last'.rc > 1 /\ last'.grp # {}) =>
       \A t \in last'.grp :
         /\ Content(xsv'[t], heap') = Content(xsv[t], heap)
         /\ xs_size(xsv'[t]) = xs_size(xsv[t])
         /\ RefCount(xsv'[t], heap') = last'.rc - 1]_vars

\* xs_concat has acted on one of three aliases of a buffer.
C1_Witness ==
  /\ last.op = "concat" /\ last.rc = 3 /\ Cardinality(last.grp) = 2
  /\ \A t \in last.grp : RefCount(xsv[t], heap) = 2

\* C2: xs_trim with a non-empty cutset on one alias of a large string whose
\* header count is c > 1 leaves the content and the length seen through
\* every other alias as they were, and the header count of the buffer they
\* hold becomes c - 1.
C2_TrimIsolation ==
  [][(last'.op = "trim" /\ Len(last'.a1) > 0 /\ last'.rc > 1 /\ last'.grp # {}) =>
       \A t \in last'.grp :
         /\ Content(xsv'[t], heap') = Content(xsv[t], heap)
         /\ xs_size(xsv'[t]) = xs_size(xsv[t])
         /\ RefCount(xsv'[t], heap') = last'.rc - 1]_vars

\* C4: with construction, cloning and release only, the header count of a
\* large string's buffer is the number of unreleased values holding it
\* (m + 1 after m clones, 1 again after m of them are released), and the
\* buffer is allocated as long as one of them is left.
C4_CloneCounting ==
  \A s \in Slots :
    (owned[s] /\ xs_is_large_string(xsv[s])) =>
      /\ Valid(heap, ptr_field(xsv[s]))
      /\ RefCount(xsv[s], heap) = 1 + Cardinality(Aliases(s))

\* Two clones were made and two of the three values released: the count is
\* back to 1 and the buffer is still allocated.
C4_Witness ==
  /\ ops["new"] = 1 /\ ops["copy"] = 2 /\ ops["free"] = 2
  /\ Cardinality({s \in Slots : owned[s]}) = 1
  /\ \E s \in Slots : owned[s] /\ RefCount(xsv[s], heap) = 1
                       /\ Valid(heap, ptr_field(xsv[s]))

\* C5: xs_concat(v, pre, suf) leaves v with content pre ++ c ++ suf, the
\* length the sum of the three lengths, and a 0 after the content.
C5_ConcatResult ==
  last.op = "concat" =>
    /\ fault = {}
    /\ Content(xsv[last.slot], heap) = last.a1 \o last.c \o last.a2
    /\ xs_size(xsv[last.slot]) = Len(last.a1) + Len(last.c) + Len(last.a2)
    /\ Terminator(xsv[last.slot], heap) = 0

\* c without its longest prefix and its longest suffix of bytes of mask.
RECURSIVE StripLeft(_, _)
StripLeft(c, mask) ==
  IF Len(c) > 0 /\ Head(c) \in mask THEN StripLeft(Tail(c), mask) ELSE c

RECURSIVE StripRight(_, _)
StripRight(c, mask) ==
  IF Len(c) > 0 /\ c[Len(c)] \in mask THEN StripRight(SubSeq(c, 1, Len(c) - 1), mask) ELSE c

Stripped(c, trimset) == StripRight(StripLeft(c, TrimMask(trimset)), TrimMask(trimset))

\* C6: xs_trim(v, cutset), cutset not empty, leaves v with its content
\* minus the longest leading and trailing runs of cutset bytes, the length
\* that of what is left, and a 0 after it; also when nothing is left.
C6_TrimResult ==
  (last.op = "trim" /\ Len(last.a1) > 0) =>
    /\ fault = {}
    /\ Content(xsv[last.slot], heap) = Stripped(last.c, last.a1)
    /\ xs_size(xsv[last.slot]) = Len(Stripped(last.c, last.a1))
    /\ Terminator(xsv[last.slot], heap) = 0

\* The least k with 2^k - 1 >= n.
MinExp(n) == CHOOSE k \in 0..30 : 2^k - 1 >= n /\ \A j \in 0..(k - 1) : 2^j - 1 < n

\* C7: xs_new of n bytes, 16 <= n < 256, gives a heap-backed value that is
\* not a large string, of length n and of capacity 2^k - 1 for the least k
\* with 2^k - 1 >= n.
C7_MediumNew ==
  (last.op = "new" /\ Len(last.a1) >= 16 /\ Len(last.a1) < LARGE_STRING_LEN) =>
    /\ xs_is_ptr(xsv[last.slot]) /\ ~xs_is_large_string(xsv[last.slot])
    /\ xs_size(xsv[last.slot]) = Len(last.a1)
    /\ xs_capacity(xsv[last.slot]) = 2^MinExp(Len(last.a1)) - 1

\* C8: xs_new of n >= 256 bytes gives a large string (is_ptr and
\* is_large_string set, the data 4 bytes after the start of the buffer) of
\* length n whose header count is 1.
C8_LargeNew ==
  (last.op = "new" /\ Len(last.a1) >= LARGE_STRING_LEN) =>
    /\ xs_is_ptr(xsv[last.slot]) /\ xs_is_large_string(xsv[last.slot])
    /\ xs_data(xsv[last.slot]) =
         [in |-> FALSE, p |-> ptr_field(xsv[last.slot]), off |-> 4]
    /\ Valid(heap, ptr_field(xsv[last.slot]))
    /\ xs_size(xsv[last.slot]) = Len(last.a1)
    /\ Content(xsv[last.slot], heap) = last.a1
    /\ RefCount(xsv[last.slot], heap) = 1

\* xs_new has built a value from exactly LARGE_STRING_LEN bytes.
C8_Witness ==
  /\ last.op = "new" /\ Len(last.a1) = LARGE_STRING_LEN
  /\ xs_is_large_string(xsv[last.slot])

\* C9: xs_new of n <= 15 bytes gives an inline value (neither is_ptr nor
\* is_large_string) with xs_size n and xs_capacity 15, and allocates
\* nothing.
C9_ShortNew ==
  (last.op = "new" /\ Len(last.a1) <= 15) =>
    /\ ~xs_is_ptr(xsv[last.slot]) /\ ~xs_is_large_string(xsv[last.slot])
    /\ xs_size(xsv[last.slot]) = Len(last.a1)
    /\ xs_capacity(xsv[last.slot]) = 15
    /\ Content(xsv[last.slot], heap) = last.a1
    /\ Len(heap) = 0

\* xs_new has built a value from 15 bytes: the terminator is in the byte of
\* the tag bits.
C9_Witness ==
  /\ last.op = "new" /\ Len(last.a1) = 15
  /\ xsv[last.slot][16] = 0

\* C11: xs_grow of an inline value with content c of length L to a target
\* above 15 leaves a heap-backed value of length L and content c.
C11_GrowInline ==
  (last.op = "grow" /\ ~xs_is_ptr(last.prex) /\ last.n > InlineCap) =>
    /\ fault = {}
    /\ xs_is_ptr(xsv[last.slot])
    /\ xs_size(xsv[last.slot]) = Len(last.c)
    /\ Content(xsv[last.slot], heap) = last.c

\* c is 2^k - 1 for some k.
PowerForm(c) == \E k \in 0..30 : c = 2^k - 1

\* C12: over any sequence of xs_grow calls on a value, xs_capacity never
\* decreases, is always 2^k - 1 and is at least the length just asked for;
\* a call with a target within the capacity changes nothing.
C12_GrowMonotone ==
  [][last'.op = "grow" =>
       /\ xs_capacity(xsv'[last'.slot]) >= xs_capacity(xsv[last'.slot])
       /\ PowerForm(xs_capacity(xsv'[last'.slot]))
       /\ xs_capacity(xsv'[last'.slot]) >= last'.n
       /\ (last'.n <= xs_capacity(xsv[last'.slot])) =>
            (xsv' = xsv /\ heap' = heap /\ fault' = fault)]_vars

\* Two calls of xs_grow in a row have each raised the capacity: 31 to 127,
\* then 127 to 2047.
C12_Witness ==
  /\ last.op = "grow" /\ last.pop = "grow" /\ fault = {}
  /\ xs_capacity(last.prex) = 127
  /\ xs_capacity(xsv[last.slot]) = 2047

\* C13: xs_trim changes neither the capacity of a value nor whether it is
\* inline or heap-backed (nor the exponent of a heap-backed one), and with
\* an empty cutset it changes nothing: not the value (content, length,
\* capacity, pointer), not any buffer or header count, also when the value
\* is an alias of a buffer whose count is above 1.
C13_TrimKeeps ==
  [][last'.op = "trim" =>
       /\ xs_capacity(xsv'[last'.slot]) = xs_capacity(xsv[last'.slot])
       /\ xs_is_ptr(xsv'[last'.slot]) = xs_is_ptr(xsv[last'.slot])
       /\ xs_is_large_string(xsv'[last'.slot]) = xs_is_large_string(xsv[last'.slot])
       /\ xs_is_ptr(xsv[last'.slot]) =>
            capacity_field(xsv'[last'.slot]) = capacity_field(xsv[last'.slot])
       /\ (Len(last'.a1) = 0) => (xsv' = xsv /\ heap' = heap /\ fault' = fault)]_vars

\* xs_trim with an empty cutset has acted on an alias of a buffer whose
\* count is 2.
C13_Witness ==
  /\ last.op = "trim" /\ Len(last.a1) = 0
  /\ last.rc = 2 /\ last.grp # {}
  /\ RefCount(xsv[last.slot], heap) = 2

\* What xs_cow_lazy_copy gives for the value of slot s.
Detached(s, u) == xs_cow_lazy_copy(Cur(s), xs_data(xsv[s]), u)

\* r is a state in which the value x of the current state was detached: the
\* count of its old buffer is one less, and the value of r is bound to a new
\* buffer with a header count of 1 and the content of x after the header.
DetachOk(x, r) ==
  /\ r.f = {}
  /\ RefCount(x, r.h) = RefCount(x, heap) - 1
  /\ Len(r.h) = Len(heap) + 1 /\ ptr_field(r.x) = Len(r.h)
  /\ xs_is_large_string(r.x)
  /\ HeaderKnown(r.h, ptr_field(r.x)) /\ RefCount(r.x, r.h) = 1
  /\ r.h[ptr_field(r.x)].size >= HeaderSize + xs_capacity(r.x) + 1
  /\ Content(r.x, r.h) = Content(x, heap)

\* C14: for a large string whose header count is above 1, whatever its
\* length, xs_cow_lazy_copy takes 1 off the count of the old buffer and
\* binds the value to a new buffer with a header count of 1 and the content
\* after the header; for any other value it allocates and changes nothing.
C14_DetachWellFormed ==
  \A s \in Slots : \A u \in Us(xsv[s]) :
    (owned[s] /\ fault = {}) =>
      IF xs_is_large_string(xsv[s]) /\ RefCount(xsv[s], heap) > 1
      THEN DetachOk(xsv[s], Detached(s, u).r)
      ELSE Detached(s, u).r = Cur(s) /\ ~Detached(s, u).copied

\* C15: xs_grow of a large string beyond its capacity (xs_allocate_data
\* with reallocate set, on a buffer that has a header) leaves the header
\* count of its buffer as it was; with a count c > 1 it is still c, not 1.
C15_ReallocKeepsCount ==
  (/\ last.op = "grow" /\ xs_is_large_string(last.prex)
   /\ last.n > xs_capacity(last.prex) /\ last.rc >= 1) =>
    RefCount(xsv[last.slot], heap) = last.rc

\* C16: xs_grow of a heap-backed value with content c of length L beyond
\* its capacity leaves content c and length L, also when a value that was
\* not a large string becomes one (target of 256 or more).
C16_GrowHeapKeepsContent ==
  (/\ last.op = "grow" /\ xs_is_ptr(last.prex)
   /\ last.n > xs_capacity(last.prex)) =>
    /\ fault = {}
    /\ xs_size(xsv[last.slot]) = Len(last.c)
    /\ Content(xsv[last.slot], heap) = last.c

\* C17: after every completed xs_new, xs_copy, xs_concat and xs_trim, the
\* byte after the content of every live value is 0, the destination of an
\* xs_copy from a medium string included.
C17_Terminated ==
  fault = {} => \A s \in Slots : owned[s] => Terminator(xsv[s], heap) = 0

\* C18: every live value has xs_capacity >= xs_size and a capacity of the
\* form 2^k - 1, in every state reached by xs_new, xs_copy, xs_grow,
\* xs_concat, xs_trim and xs_free; so it is after an xs_grow that takes a
\* non-empty inline value to the heap, which completes.
C18_CapacityBoundsSize ==
  /\ \A s \in Slots : owned[s] =>
       /\ PowerForm(xs_capacity(xsv[s]))
       /\ xs_capacity(xsv[s]) >= xs_size(xsv[s])
  /\ (last.op = "grow" /\ ~xs_is_ptr(last.prex)) => fault = {}

\* C19: in every state reached by xs_new, xs_copy, xs_concat, xs_trim and
\* xs_free, the header count of a buffer that a live large string points at
\* is the number of live values pointing at it.
C19_CountIsAliases ==
  fault = {} =>
    \A s \in Slots :
      (owned[s] /\ xs_is_large_string(xsv[s])) =>
        /\ HeaderKnown(heap, ptr_field(xsv[s]))
        /\ RefCount(xsv[s], heap) = 1 + Cardinality(Aliases(s))

\* C20: realloc is only ever given NULL or a pointer the allocator returned,
\* every heap-backed value points at a buffer obtained from the allocator,
\* and that buffer holds at least h + capacity + 1 bytes, h being 4 for a
\* value tagged as a large string and 0 otherwise.
C20_LayoutBacked ==
  /\ "wild_free" \notin fault
  /\ \A s \in Slots :
       (owned[s] /\ xs_is_ptr(xsv[s])) =>
         /\ ptr_field(xsv[s]) \in 1..Len(heap)
         /\ heap[ptr_field(xsv[s])].size >=
              (IF xs_is_large_string(xsv[s]) THEN HeaderSize ELSE 0)
                + xs_capacity(xsv[s]) + 1

=============================================================================
